---- MODULE Spec2Model ----
(***************************************************************************)
(* Model of src/asgi/io.rs: the ASGI Receiver (request body reads) and the *)
(* ASGI Sender (response start/body messages, one-shot hand-off of the     *)
(* finished response).                                                     *)
(***************************************************************************)
EXTENDS Integers, Sequences, FiniteSets, TLC

(***************************************************************************)
(* Python values found in a message dict.  A key that is not in the dict   *)
(* is Absent (PyDict::get_item returns None).                              *)
(***************************************************************************)
Absent == [absent |-> TRUE]
PyNone == [none |-> TRUE]
PyInt(i) == [int |-> i]
PyStr(s) == [str |-> s]
PyBool(b) == [bool |-> b]
PyBytes(b) == [bytes |-> b]
PyList(l) == [list |-> l]

IsInt(v) == DOMAIN v = {"int"}
IsStr(v) == DOMAIN v = {"str"}
IsBool(v) == DOMAIN v = {"bool"}
IsBytes(v) == DOMAIN v = {"bytes"}
IsList(v) == DOMAIN v = {"list"}

Msg(t, s, h, b, mb) ==
    [type |-> t, status |-> s, headers |-> h, body |-> b, more_body |-> mb]

StartType == "http.response.start"
BodyType == "http.response.body"

\* Results of a fallible step: Ok(v) or Err.
Ok(v) == [ok |-> TRUE, val |-> v]
Err == [ok |-> FALSE]

(***************************************************************************)
(* Bounds of the model.                                                    *)
(***************************************************************************)
MaxCalls == 4
MaxFrames == 2
MaxReceives == 3
NumReaders == 2

(***************************************************************************)
(* Integer widths and library limits.                                      *)
(***************************************************************************)
I16Min == -32768
I16Max == 32767
U16Mod == 65536
StatusCodeMin == 100
StatusCodeMax == 999

\* Mutant of adapt_message_type: the catch-all arm of the match yields Body.
adapt_message_type_CatchAllBody(message) ==
    IF message.type = Absent THEN "UnsupportedASGIMessage"
    ELSE IF ~IsStr(message.type) THEN "UnsupportedASGIMessage"
    ELSE IF message.type.str = StartType THEN "Start"
    ELSE "Body"

(***************************************************************************)
(* Sender::adapt_message_type                                              *)
(***************************************************************************)
adapt_message_type(message) ==
    IF message.type = Absent THEN "UnsupportedASGIMessage"
    ELSE IF ~IsStr(message.type) THEN "UnsupportedASGIMessage"
    ELSE IF message.type.str = StartType THEN "Start"
    ELSE IF message.type.str = BodyType THEN "Body"
    ELSE "UnsupportedASGIMessage"

(***************************************************************************)
(* Sender::adapt_status_code: the item is extracted as an i16; an integer  *)
(* outside the i16 range, or a value that is no integer, fails to extract. *)
(***************************************************************************)
ExtractI16(item) ==
    IF IsInt(item) /\ item.int >= I16Min /\ item.int <= I16Max
    THEN Ok(item.int) ELSE Err

adapt_status_code(message) ==
    IF message.status = Absent THEN Err ELSE ExtractI16(message.status)

(***************************************************************************)
(* http::header::HeaderName::from_bytes and HeaderValue::from_bytes.       *)
(* Bytes are integers 0..255.  A name is a non-empty sequence of token     *)
(* characters and is stored in lower case; a value may hold any byte that  *)
(* is a tab or is visible (>= 32 and not DEL).                             *)
(***************************************************************************)
IsTokenByte(b) ==
    \/ b \in {33, 35, 36, 37, 38, 39, 42, 43, 45, 46, 94, 95, 96, 124, 126}
    \/ b \in 48..57
    \/ b \in 65..90
    \/ b \in 97..122

LowerByte(b) == IF b \in 65..90 THEN b + 32 ELSE b

HeaderNameFromBytes(src) ==
    IF Len(src) > 0 /\ \A i \in 1..Len(src) : IsTokenByte(src[i])
    THEN Ok([i \in 1..Len(src) |-> LowerByte(src[i])])
    ELSE Err

HeaderValueFromBytes(src) ==
    IF \A i \in 1..Len(src) : (src[i] = 9 \/ (src[i] >= 32 /\ src[i] # 127))
    THEN Ok(src) ELSE Err

(***************************************************************************)
(* HeaderMap, as the sequence of its entries <<name, value>> in entry      *)
(* order.  HeaderMap::insert replaces the value of an entry with the same  *)
(* name and keeps the entry where it is; otherwise it adds an entry.       *)
(***************************************************************************)
HeaderMapNew == << >>

HeaderMapInsert(map, key, val) ==
    IF \E i \in 1..Len(map) : map[i][1] = key
    THEN [i \in 1..Len(map) |-> IF map[i][1] = key THEN <<key, val>> ELSE map[i]]
    ELSE Append(map, <<key, val>>)

(***************************************************************************)
(* Sender::adapt_headers.  The item is extracted as Vec<Vec<&[u8]>>; when  *)
(* any part of it has another type the extraction fails as a whole and     *)
(* the list is taken as empty.  Each tuple is then indexed at [0] and [1]: *)
(* a tuple with fewer than two elements panics (index out of bounds).      *)
(***************************************************************************)
ExtractHeaderList(item) ==
    IF /\ IsList(item)
       /\ \A i \in 1..Len(item.list) :
            /\ IsList(item.list[i])
            /\ \A j \in 1..Len(item.list[i].list) : IsBytes(item.list[i].list[j])
    THEN [i \in 1..Len(item.list) |->
            [j \in 1..Len(item.list[i].list) |-> item.list[i].list[j].bytes]]
    ELSE << >>

HeaderAccum(message) ==
    IF message.headers = Absent THEN << >> ELSE ExtractHeaderList(message.headers)

HeadersPanic(message) ==
    \E i \in 1..Len(HeaderAccum(message)) : Len(HeaderAccum(message)[i]) < 2

RECURSIVE InsertParsed(_, _, _)
InsertParsed(ret, accum, i) ==
    IF i > Len(accum) THEN ret
    ELSE LET key == HeaderNameFromBytes(accum[i][1])
             val == HeaderValueFromBytes(accum[i][2])
         IN  IF key.ok /\ val.ok
             THEN InsertParsed(HeaderMapInsert(ret, key.val, val.val), accum, i + 1)
             ELSE InsertParsed(ret, accum, i + 1)

adapt_headers(message) == InsertParsed(HeaderMapNew, HeaderAccum(message), 1)

(***************************************************************************)
(* Sender::adapt_body: defaults are the empty body and more_body = false.  *)
(***************************************************************************)
adapt_body(message) ==
    [body |-> IF IsBytes(message.body) THEN message.body.bytes ELSE << >>,
     more |-> IF IsBool(message.more_body) THEN message.more_body.bool ELSE FALSE]

(***************************************************************************)
(* hyper::StatusCode::from_u16 after the cast `self.status as u16`.        *)
(***************************************************************************)
AsU16(s) == (s + U16Mod) % U16Mod

StatusCodeFromU16(src) ==
    IF src >= StatusCodeMin /\ src <= StatusCodeMax THEN Ok(src) ELSE Err

NoResponse == [none |-> TRUE]
NoCall == [none |-> TRUE]

VARIABLES
    \* struct Sender
    inited, consumed, status, headers, body, tx,
    \* the oneshot channel behind tx, seen from its consumer
    chanState,   \* "none" | "pending" | "sent" | "closed"
    rxAlive,     \* the consumer end has not been dropped
    response,    \* the Response the consumer receives, or NoResponse
    sends,       \* number of tx.send calls made
    \* the handler's calls of Sender.__call__
    call,        \* the last call: [msg, result], or NoCall
    ncalls,      \* number of calls made
    chunks,      \* the adapt_body results of the body messages submitted
                 \* while inited and not consumed, in call order
    \* struct Receiver and the request it shares
    reqBody,     \* the whole body of the request
    stream,      \* the data frames the body stream has yet to yield
    failure,     \* "none" | "pending" (the transport fails after the frames) | "raised"
    lockHolder,  \* reader holding the request mutex, 0 when free
    waitq,       \* readers waiting for the mutex, first come first served
    pc,          \* per reader: "idle" | "waiting" | "draining" | "panicked"
    buf,         \* per reader: the bytes to_bytes has collected
    returned,    \* the completions of receive calls, in order
    nrecv        \* number of receive calls made

senderVars == <<inited, consumed, status, headers, body, tx>>
chanVars == <<chanState, rxAlive, response, sends>>
callVars == <<call, ncalls, chunks>>
recvVars == <<reqBody, stream, failure, lockHolder, waitq, pc, buf, returned, nrecv>>
vars == <<senderVars, chanVars, callVars, recvVars>>

Readers == 1..NumReaders

(***************************************************************************)
(* Sender::new.  tx is an Option: a Sender may be built without a channel. *)
(***************************************************************************)
SenderNew(t) ==
    /\ inited = FALSE
    /\ consumed = FALSE
    /\ status = 0
    /\ headers = HeaderMapNew
    /\ body = << >>
    /\ tx = t
    /\ chanState = IF t THEN "pending" ELSE "none"
    /\ rxAlive = t
    /\ response = NoResponse
    /\ sends = 0
    /\ call = NoCall
    /\ ncalls = 0
    /\ chunks = << >>

\* Mutants of StartAllowed: a start is taken again once the response is
\* handed off, or as long as it is not.
StartAllowed_AfterConsumed == inited = FALSE \/ consumed = TRUE
StartAllowed_WhileNotConsumed == consumed = FALSE

\* Mutants of BodyAllowed: the match ignores one of the two flags.
BodyAllowed_IgnoreConsumed == inited = TRUE
BodyAllowed_IgnoreInited == consumed = FALSE

(***************************************************************************)
(* The guards of Sender::__call__: `match self.inited { false => .. }` and *)
(* `match (self.inited, self.consumed) { (true, false) => .. }`.           *)
(***************************************************************************)
StartAllowed == inited = FALSE
BodyAllowed == inited = TRUE /\ consumed = FALSE

\* Mutant of init_response: the inited flag is not set.
init_response_FlagNotSet(status_code, hdrs) ==
    /\ status' = status_code
    /\ headers' = hdrs
    /\ inited' = inited

(***************************************************************************)
(* Sender::init_response                                                   *)
(***************************************************************************)
init_response(status_code, hdrs) ==
    /\ status' = status_code
    /\ headers' = hdrs
    /\ inited' = TRUE

(***************************************************************************)
(* Sender::send_body.  The body is extended first.  On finish the producer *)
(* is taken out of self.tx; building the response unwraps                  *)
(* StatusCode::from_u16, which panics for a status outside 100..999: the   *)
(* taken producer is then dropped unsent (the consumer sees the channel    *)
(* closed) and consumed is not set.  A send to a dropped consumer returns  *)
(* the response, which is ignored.                                         *)
(***************************************************************************)
\* Mutant of ExtendFromSlice: the new bytes go in front of the buffer.
ExtendFromSlice_Prepend(vec, slice) == slice \o vec

ExtendFromSlice(vec, slice) == vec \o slice

SendBodyPanics(finish) ==
    finish /\ tx /\ ~StatusCodeFromU16(AsU16(status)).ok

BuildResponse(newBody) ==
    [status |-> StatusCodeFromU16(AsU16(status)).val,
     headers |-> headers,
     body |-> newBody]

send_body(data, finish) ==
    /\ body' = ExtendFromSlice(body, data)
    /\ IF finish
       THEN IF tx
            THEN /\ tx' = FALSE
                 /\ IF SendBodyPanics(finish)
                    THEN /\ chanState' = "closed"
                         /\ UNCHANGED <<response, sends, consumed>>
                    ELSE /\ sends' = sends + 1
                         /\ IF rxAlive
                            THEN /\ chanState' = "sent"
                                 /\ response' = BuildResponse(body')
                            ELSE /\ chanState' = "closed"
                                 /\ UNCHANGED response
                         /\ consumed' = TRUE
            ELSE /\ consumed' = TRUE
                 /\ UNCHANGED <<tx, chanState, response, sends>>
       ELSE UNCHANGED <<tx, chanState, response, sends, consumed>>

(***************************************************************************)
(* Sender::__call__ with argument data.  The result is what the handler    *)
(* gets: "Ok", "ASGIFlowError", "UnsupportedASGIMessage", or "Panic" when  *)
(* an unwrap or an index panics inside the call (the panic unwinds to the  *)
(* Python boundary, or ends the process in a build that aborts on panic;   *)
(* in neither case is it one of the two errors).  In the start arm the     *)
(* status is adapted (and unwrapped) before the headers, and both before   *)
(* init_response runs.                                                     *)
(***************************************************************************)
\* Mutant of FinishFlag: the negation is left out.
FinishFlag_NotNegated(more) == more

\* The finish argument of send_body: `!body_data.1`.
FinishFlag(more) == ~more

StartResult(data) ==
    IF ~StartAllowed THEN "ASGIFlowError"
    ELSE IF ~adapt_status_code(data).ok THEN "Panic"
    ELSE IF HeadersPanic(data) THEN "Panic"
    ELSE "Ok"

BodyResult(data) ==
    IF ~BodyAllowed THEN "ASGIFlowError"
    ELSE IF SendBodyPanics(FinishFlag(adapt_body(data).more)) THEN "Panic"
    ELSE "Ok"

CallResult(data) ==
    IF adapt_message_type(data) = "Start" THEN StartResult(data)
    ELSE IF adapt_message_type(data) = "Body" THEN BodyResult(data)
    ELSE "UnsupportedASGIMessage"

Sender__call__(data) ==
    /\ ncalls < MaxCalls
    /\ ncalls' = ncalls + 1
    /\ call' = [msg |-> data, result |-> CallResult(data)]
    /\ chunks' = IF adapt_message_type(data) = "Body" /\ inited /\ ~consumed
                 THEN Append(chunks, adapt_body(data)) ELSE chunks
    /\ IF adapt_message_type(data) = "Start" /\ StartResult(data) = "Ok"
       THEN /\ init_response(adapt_status_code(data).val, adapt_headers(data))
            /\ UNCHANGED <<consumed, body, tx, chanVars>>
       ELSE IF adapt_message_type(data) = "Body" /\ BodyAllowed
       THEN /\ send_body(adapt_body(data).body, FinishFlag(adapt_body(data).more))
            /\ UNCHANGED <<inited, status, headers, rxAlive>>
       ELSE UNCHANGED <<senderVars, chanVars>>
    /\ UNCHANGED recvVars

(***************************************************************************)
(* The HTTP engine abandons the request: the consumer end of the channel   *)
(* is dropped while the response is still awaited.                         *)
(***************************************************************************)
DropConsumer ==
    /\ rxAlive
    /\ chanState = "pending"
    /\ rxAlive' = FALSE
    /\ UNCHANGED <<senderVars, chanState, response, sends, callVars, recvVars>>

\* Mutant of ToBytesPut: a frame replaces what was collected before it.
ToBytesPut_Overwrite(vec, frame) == frame

(***************************************************************************)
(* hyper::body::to_bytes collects the data frames of the body in order.    *)
(***************************************************************************)
ToBytesPut(vec, frame) == vec \o frame

RECURSIVE Flatten(_)
Flatten(seqs) == IF seqs = << >> THEN << >> ELSE Head(seqs) \o Flatten(Tail(seqs))

(***************************************************************************)
(* Receiver::new: the request is put behind a mutex nobody holds.  The     *)
(* body stream yields the given frames and then ends, or then fails.       *)
(***************************************************************************)
ReceiverNew(frames, fails) ==
    /\ reqBody = Flatten(frames)
    /\ stream = frames
    /\ failure = IF fails THEN "pending" ELSE "none"
    /\ lockHolder = 0
    /\ waitq = << >>
    /\ pc = [r \in Readers |-> "idle"]
    /\ buf = [r \in Readers |-> << >>]
    /\ returned = << >>
    /\ nrecv = 0

(***************************************************************************)
(* Receiver::__call__, reader r.  The call spawns the future, which waits  *)
(* for the mutex (tokio's Mutex serves waiters first come first served),   *)
(* drains the body with to_bytes, copies it into a bytes object and        *)
(* releases the mutex when it ends.  A transport error makes the unwrap    *)
(* of to_bytes panic: the future is unwound and the guard dropped, so the  *)
(* call ends with error "Panic" (the awaiting handler gets the panic, not  *)
(* a read error built by this code: the async block has no Err path).  The *)
(* body stream yields its error once and is ended after it.                *)
(***************************************************************************)
Receiver__call__(r) ==
    /\ pc[r] \in {"idle", "panicked"}
    /\ nrecv < MaxReceives
    /\ nrecv' = nrecv + 1
    /\ pc' = [pc EXCEPT ![r] = "waiting"]
    /\ waitq' = Append(waitq, r)
    /\ UNCHANGED <<reqBody, stream, failure, lockHolder, buf, returned>>
    /\ UNCHANGED <<senderVars, chanVars, callVars>>

\* Mutant of LockAcquire: the mutex is taken although it is held.
LockAcquire_NoExclusion(r) ==
    /\ pc[r] = "waiting"
    /\ waitq # << >>
    /\ Head(waitq) = r
    /\ lockHolder' = r
    /\ waitq' = Tail(waitq)
    /\ pc' = [pc EXCEPT ![r] = "draining"]
    /\ buf' = [buf EXCEPT ![r] = << >>]
    /\ UNCHANGED <<reqBody, stream, failure, returned, nrecv>>
    /\ UNCHANGED <<senderVars, chanVars, callVars>>

LockAcquire(r) ==
    /\ pc[r] = "waiting"
    /\ lockHolder = 0
    /\ waitq # << >>
    /\ Head(waitq) = r
    /\ lockHolder' = r
    /\ waitq' = Tail(waitq)
    /\ pc' = [pc EXCEPT ![r] = "draining"]
    /\ buf' = [buf EXCEPT ![r] = << >>]
    /\ UNCHANGED <<reqBody, stream, failure, returned, nrecv>>
    /\ UNCHANGED <<senderVars, chanVars, callVars>>

PollData(r) ==
    /\ pc[r] = "draining"
    /\ lockHolder = r
    /\ stream # << >>
    /\ buf' = [buf EXCEPT ![r] = ToBytesPut(buf[r], Head(stream))]
    /\ stream' = Tail(stream)
    /\ UNCHANGED <<reqBody, failure, lockHolder, waitq, pc, returned, nrecv>>
    /\ UNCHANGED <<senderVars, chanVars, callVars>>

PollEnd(r) ==
    /\ pc[r] = "draining"
    /\ lockHolder = r
    /\ stream = << >>
    /\ failure # "pending"
    /\ returned' = Append(returned,
                    [reader |-> r, ok |-> TRUE, bytes |-> buf[r], error |-> "none"])
    /\ lockHolder' = 0
    /\ pc' = [pc EXCEPT ![r] = "idle"]
    /\ buf' = [buf EXCEPT ![r] = << >>]
    /\ UNCHANGED <<reqBody, stream, failure, waitq, nrecv>>
    /\ UNCHANGED <<senderVars, chanVars, callVars>>

\* Mutant of PollError: the panicking future keeps the mutex.
PollError_KeepsLock(r) ==
    /\ pc[r] = "draining"
    /\ lockHolder = r
    /\ stream = << >>
    /\ failure = "pending"
    /\ failure' = "raised"
    /\ returned' = Append(returned,
                    [reader |-> r, ok |-> FALSE, bytes |-> << >>, error |-> "Panic"])
    /\ pc' = [pc EXCEPT ![r] = "panicked"]
    /\ buf' = [buf EXCEPT ![r] = << >>]
    /\ UNCHANGED <<reqBody, stream, waitq, nrecv, lockHolder>>
    /\ UNCHANGED <<senderVars, chanVars, callVars>>

PollError(r) ==
    /\ pc[r] = "draining"
    /\ lockHolder = r
    /\ stream = << >>
    /\ failure = "pending"
    /\ failure' = "raised"
    /\ returned' = Append(returned,
                    [reader |-> r, ok |-> FALSE, bytes |-> << >>, error |-> "Panic"])
    /\ lockHolder' = 0
    /\ pc' = [pc EXCEPT ![r] = "panicked"]
    /\ buf' = [buf EXCEPT ![r] = << >>]
    /\ UNCHANGED <<reqBody, stream, waitq, nrecv>>
    /\ UNCHANGED <<senderVars, chanVars, callVars>>

ReceiverStep(r) ==
    \/ Receiver__call__(r)
    \/ LockAcquire(r)
    \/ PollData(r)
    \/ PollEnd(r)
    \/ PollError(r)

(***************************************************************************)
(* The messages a handler submits.  Bytes: 97 'a', 65 'A', 98 'b',         *)
(* 118 'v', 119 'w', 0 NUL, 10 LF.                                         *)
(***************************************************************************)
StatusInts == {-1, 0, 99, 100, 200, 999, 1000, 32767, 32768, 65535, 65536}
StatusVals == {Absent, PyStr("200")} \cup {PyInt(i) : i \in StatusInts}

Pair(n, v) == PyList(<<PyBytes(n), PyBytes(v)>>)
HeaderVals ==
    { Absent,
      PyNone,
      PyList(<<Pair(<<97>>, <<118>>), Pair(<<98>>, <<119>>)>>),    \* a: v, b: w
      PyList(<<Pair(<<98>>, <<119>>), Pair(<<65>>, <<118>>)>>),    \* b: w, A: v
      PyList(<<Pair(<<97>>, <<118>>), Pair(<<65>>, <<119>>)>>),    \* a: v, A: w
      PyList(<<Pair(<<97>>, <<118>>), Pair(<<97>>, <<119>>)>>),    \* a: v, a: w
      PyList(<<Pair(<<0, 98>>, <<118>>), Pair(<<97>>, <<119>>)>>), \* NUL in a name
      PyList(<<Pair(<<97>>, <<119, 10>>)>>),                       \* LF in a value
      PyList(<<PyList(<<PyStr("a"), PyBytes(<<118>>)>>)>>),        \* a str name
      PyList(<<Pair(<<97>>, <<118>>), PyList(<<PyBytes(<<98>>)>>)>>) } \* no value

RECURSIVE SeqsUpTo(_, _)
SeqsUpTo(S, n) ==
    IF n = 0 THEN {<< >>}
    ELSE SeqsUpTo(S, n - 1) \cup
         {Append(q, x) : q \in {p \in SeqsUpTo(S, n - 1) : Len(p) = n - 1}, x \in S}

BodyVals == {Absent, PyNone, PyBytes(<<1>>), PyBytes(<<2>>)}
MoreVals == {Absent, PyInt(1), PyBool(TRUE), PyBool(FALSE)}
OtherTypes == {Absent, PyInt(1), PyStr("websocket.send")}

StartMessages ==
    {Msg(PyStr(StartType), s, Absent, Absent, Absent) : s \in StatusVals}
    \cup {Msg(PyStr(StartType), PyInt(200), h, Absent, Absent) : h \in HeaderVals}

BodyMessages ==
    {Msg(PyStr(BodyType), Absent, Absent, b, mb) : b \in BodyVals, mb \in MoreVals}
    \cup {Msg(PyStr(BodyType), PyInt(200), PyList(<< >>), PyBytes(<<1>>), PyBool(FALSE))}

OtherMessages ==
    {Msg(t, Absent, Absent, Absent, Absent) : t \in OtherTypes}
    \cup {Msg(t, PyInt(200), PyList(<< >>), PyBytes(<<1>>), PyBool(FALSE)) : t \in OtherTypes}

Messages == StartMessages \cup BodyMessages \cup OtherMessages

FrameVals == {<<1>>, <<2>>, <<3, 4>>}
Streams == SeqsUpTo(FrameVals, MaxFrames)

(***************************************************************************)
(* The Sender of one request, driven by a handler that submits any         *)
(* messages in any order; the request has an empty body and is not read.   *)
(***************************************************************************)
Init ==
    /\ \E t \in BOOLEAN : SenderNew(t)
    /\ ReceiverNew(<< >>, FALSE)

Next ==
    \/ \E data \in Messages : Sender__call__(data)
    \/ DropConsumer

Spec == Init /\ [][Next]_vars

(***************************************************************************)
(* The Receiver of one request read by a single reader: one receive call   *)
(* at a time.                                                              *)
(***************************************************************************)
InitRecv ==
    /\ SenderNew(TRUE)
    /\ \E frames \in Streams, fails \in BOOLEAN : ReceiverNew(frames, fails)

NextRecv1 == ReceiverStep(1)

SpecRecv1 == InitRecv /\ [][NextRecv1]_vars

(***************************************************************************)
(* The Receiver of one request with several receive calls pending at the   *)
(* same time.                                                              *)
(***************************************************************************)
NextRecv == \E r \in Readers : ReceiverStep(r)

SpecRecv == InitRecv /\ [][NextRecv]_vars

(***************************************************************************)
(* Receiver and Sender of one request together: concurrent receive calls   *)
(* interleaved with submit calls.  The runtime keeps polling a spawned     *)
(* future that can make progress: a waiter at the head of the queue gets   *)
(* the free mutex, and to_bytes gets the next frame, the end or the error  *)
(* of a stream that ends or fails.  The handler is not obliged to call.    *)
(***************************************************************************)
LiveMessages ==
    { Msg(PyStr(StartType), PyInt(200), Absent, Absent, Absent),
      Msg(PyStr(BodyType), Absent, Absent, PyBytes(<<1>>), Absent) }

LiveStreams == {[i \in 1..n |-> <<i>>] : n \in 0..MaxFrames}

InitLive ==
    /\ SenderNew(TRUE)
    /\ \E frames \in LiveStreams, fails \in BOOLEAN : ReceiverNew(frames, fails)

NextLive ==
    \/ \E r \in Readers : ReceiverStep(r)
    \/ \E data \in LiveMessages : Sender__call__(data)

FutureProgress(r) == LockAcquire(r) \/ PollData(r) \/ PollEnd(r) \/ PollError(r)

SpecLive ==
    /\ InitLive
    /\ [][NextLive]_vars
    /\ \A r \in Readers : WF_vars(FutureProgress(r))

(***************************************************************************)
(* Vocabulary of the properties.                                           *)
(***************************************************************************)
Fresh == ~inited
Initialized == inited /\ ~consumed
Finalized == consumed

\* This step is a call of Sender.__call__; call' holds its message and result.
Submitted == ncalls' = ncalls + 1

IsStartMessage(m) == m.type = PyStr(StartType)
IsBodyMessage(m) == m.type = PyStr(BodyType)
\* more_body false or absent
IsFinalizing(m) == m.more_body \in {Absent, PyBool(FALSE)}
\* an integer in the range HTTP semantics expect
HasValidStatus(m) == IsInt(m.status) /\ m.status.int >= 0 /\ m.status.int <= 65535

RECURSIVE ConcatBodies(_)
ConcatBodies(cs) ==
    IF cs = << >> THEN << >> ELSE Head(cs).body \o ConcatBodies(Tail(cs))

\* The chunks up to and including the first one whose more_body is false.
RECURSIVE UpToFirstFinal(_)
UpToFirstFinal(cs) ==
    IF cs = << >> THEN << >>
    ELSE IF ~Head(cs).more THEN <<Head(cs)>>
    ELSE <<Head(cs)>> \o UpToFirstFinal(Tail(cs))

\* The pairs of a raw header list whose name and value both parse, in order.
RECURSIVE WellFormedPairs(_)
WellFormedPairs(raw) ==
    IF raw = << >> THEN << >>
    ELSE LET p == Head(raw)
             good == /\ IsList(p)
                     /\ Len(p.list) = 2
                     /\ IsBytes(p.list[1])
                     /\ IsBytes(p.list[2])
                     /\ HeaderNameFromBytes(p.list[1].bytes).ok
                     /\ HeaderValueFromBytes(p.list[2].bytes).ok
         IN  IF good
             THEN <<  <<HeaderNameFromBytes(p.list[1].bytes).val,
                        HeaderValueFromBytes(p.list[2].bytes).val>>  >>
                  \o WellFormedPairs(Tail(raw))
             ELSE WellFormedPairs(Tail(raw))

(***************************************************************************)
(* C1: a start message with a valid status submitted while Fresh succeeds, *)
(* its status and headers are stored and the state becomes Initialized;    *)
(* a start message submitted once inited fails with ASGIFlowError.         *)
(* Does not hold: a status above 32767, or a header pair without its      *)
(* value, makes the call panic and leaves the Sender Fresh.                *)
(***************************************************************************)
C1_StartContract ==
    [][(Submitted /\ IsStartMessage(call'.msg)) =>
          IF Fresh
          THEN HasValidStatus(call'.msg) =>
                 /\ call'.result = "Ok"
                 /\ status' = call'.msg.status.int
                 /\ headers' = adapt_headers(call'.msg)
                 /\ inited' /\ ~consumed'
          ELSE call'.result = "ASGIFlowError"]_vars

(***************************************************************************)
(* C2: the body buffer is the concatenation, in call order, of the chunks  *)
(* of the body messages submitted while Initialized, and the body of the   *)
(* response handed to the channel is the concatenation of the chunks up to *)
(* and including the first one whose more_body is false.                   *)
(***************************************************************************)
C2_BodyConcat ==
    /\ body = ConcatBodies(chunks)
    /\ response # NoResponse =>
         response.body = ConcatBodies(UpToFirstFinal(chunks))

C2_Witness ==
    /\ response # NoResponse
    /\ Len(chunks) >= 2
    /\ response.body = <<1, 2>>

(***************************************************************************)
(* C3: the channel is resolved at most once, and every start or body       *)
(* message submitted once Finalized fails with ASGIFlowError.              *)
(***************************************************************************)
C3_ResolvedOnce ==
    /\ [](sends <= 1)
    /\ [][(Submitted /\ Finalized
            /\ (IsStartMessage(call'.msg) \/ IsBodyMessage(call'.msg))) =>
          call'.result = "ASGIFlowError"]_vars

C3_Witness ==
    /\ Finalized
    /\ sends = 1
    /\ response # NoResponse
    /\ call # NoCall
    /\ call.result = "ASGIFlowError"
    /\ IsBodyMessage(call.msg)
    /\ IsFinalizing(call.msg)

(***************************************************************************)
(* C4: a finalizing body message submitted while Initialized, with the     *)
(* channel still awaited, returns Ok, sets consumed and resolves the       *)
(* channel with the stored status, the stored headers and the accumulated  *)
(* body, for every status the start message accepted.                      *)
(* Does not hold: a stored status outside 100..999 makes the unwrap of     *)
(* StatusCode::from_u16 panic.                                             *)
(***************************************************************************)
C4_FinalBodyContract ==
    [][(Submitted /\ IsBodyMessage(call'.msg) /\ IsFinalizing(call'.msg)
          /\ Initialized /\ tx /\ rxAlive) =>
          /\ call'.result = "Ok"
          /\ consumed'
          /\ chanState' = "sent"
          /\ response' = [status |-> status, headers |-> headers, body |-> body']]_vars

(***************************************************************************)
(* C5: a body message submitted while Fresh fails with ASGIFlowError,      *)
(* whatever its fields; the Sender stays Fresh with an empty body and the  *)
(* channel is not resolved.                                                *)
(***************************************************************************)
C5_BodyWhileFresh ==
    [][(Submitted /\ IsBodyMessage(call'.msg) /\ Fresh) =>
          /\ call'.result = "ASGIFlowError"
          /\ ~inited' /\ ~consumed'
          /\ body' = << >>
          /\ sends' = 0
          /\ response' = NoResponse
          /\ UNCHANGED <<tx, chanState>>]_vars

C5_Witness ==
    /\ Fresh
    /\ call # NoCall
    /\ IsBodyMessage(call.msg)
    /\ call.msg.body = PyBytes(<<1>>)
    /\ call.result = "ASGIFlowError"

(***************************************************************************)
(* C6: a message whose type is missing, is no string or is none of the two *)
(* recognized kinds fails with UnsupportedASGIMessage in every state and   *)
(* leaves the Sender and its channel unchanged.                            *)
(***************************************************************************)
C6_UnsupportedType ==
    [][(Submitted /\ ~IsStartMessage(call'.msg) /\ ~IsBodyMessage(call'.msg)) =>
          /\ call'.result = "UnsupportedASGIMessage"
          /\ UNCHANGED <<senderVars, chanVars>>]_vars

C6_Witness ==
    /\ Finalized
    /\ call # NoCall
    /\ call.msg.type = PyInt(1)
    /\ call.msg.body = PyBytes(<<1>>)
    /\ call.result = "UnsupportedASGIMessage"

(***************************************************************************)
(* C7: a start message submitted while Fresh whose status is absent or no  *)
(* integer fails with UnsupportedASGIMessage and leaves the Sender Fresh.  *)
(* Does not hold: the Err of adapt_status_code is unwrapped, so the call   *)
(* panics.                                                                 *)
(***************************************************************************)
C7_BadStatusUnsupported ==
    [][(Submitted /\ IsStartMessage(call'.msg) /\ Fresh
          /\ (call'.msg.status = Absent \/ ~IsInt(call'.msg.status))) =>
          /\ call'.result = "UnsupportedASGIMessage"
          /\ ~inited']_vars

(***************************************************************************)
(* C8: a finalizing body message submitted while Initialized after the     *)
(* consumer end of the channel was dropped returns Ok and sets consumed;   *)
(* the response is discarded.                                              *)
(* Does not hold: the panic of C4 comes before the send.                   *)
(***************************************************************************)
C8_ConsumerGone ==
    [][(Submitted /\ IsBodyMessage(call'.msg) /\ IsFinalizing(call'.msg)
          /\ Initialized /\ tx /\ ~rxAlive) =>
          /\ call'.result = "Ok"
          /\ consumed'
          /\ response' = NoResponse]_vars

(***************************************************************************)
(* C9: a start message submitted while Fresh with a valid status and any   *)
(* list of raw header pairs succeeds, and the stored headers are exactly   *)
(* the pairs whose name and value both parse.                              *)
(* Does not hold: a pair without its value panics.                         *)
(***************************************************************************)
C9_MalformedPairsDropped ==
    [][(Submitted /\ IsStartMessage(call'.msg) /\ Fresh
          /\ HasValidStatus(call'.msg) /\ call'.msg.status.int = 200
          /\ IsList(call'.msg.headers)) =>
          /\ call'.result = "Ok"
          /\ headers' = WellFormedPairs(call'.msg.headers.list)]_vars

(***************************************************************************)
(* C10: with a single reader and a transport that does not fail, the first *)
(* receive call returns the whole body as one buffer, every later call     *)
(* (made when the stream is exhausted) returns an empty buffer, and the    *)
(* results of all calls concatenated equal the body.                       *)
(***************************************************************************)
C10_ReceiveWholeBody ==
    (failure = "none" /\ Len(returned) >= 1) =>
        /\ returned[1].ok
        /\ returned[1].bytes = reqBody
        /\ \A i \in 2..Len(returned) : returned[i].ok /\ returned[i].bytes = << >>
        /\ Flatten([i \in 1..Len(returned) |-> returned[i].bytes]) = reqBody

C10_Witness ==
    /\ failure = "none"
    /\ Len(returned) >= 2
    /\ returned[1].bytes = <<1, 3, 4>>

(***************************************************************************)
(* C11: when the transport fails while a receive call drains the body, the *)
(* call completes with a transport-read error delivered to the handler,    *)
(* its task does not crash, and the request lock is released.              *)
(* Does not hold: the error of to_bytes is unwrapped, so the task panics;  *)
(* the lock is released by the unwinding.                                  *)
(***************************************************************************)
C11_TransportErrorReturned ==
    /\ \A i \in 1..Len(returned) :
         ~returned[i].ok => returned[i].error = "TransportReadFailure"
    /\ \A r \in Readers : pc[r] # "panicked"
    /\ \A r \in Readers : lockHolder = r => pc[r] = "draining"

(***************************************************************************)
(* C12: a start message submitted while Fresh (here without headers) is    *)
(* accepted for every integer status in 0..65535, and the stored status is *)
(* the status of the message.                                              *)
(* Does not hold: the status is an i16, so a status in 32768..65535 fails  *)
(* to extract and the unwrap panics.                                       *)
(***************************************************************************)
C12_StatusRange ==
    [][(Submitted /\ IsStartMessage(call'.msg) /\ Fresh
          /\ HasValidStatus(call'.msg) /\ call'.msg.headers = Absent) =>
          /\ call'.result = "Ok"
          /\ inited'
          /\ status' = call'.msg.status.int]_vars

(***************************************************************************)
(* C13: once the Sender is Finalized no step changes its flags, status,    *)
(* headers or body: there is no transition out of Finalized.               *)
(***************************************************************************)
C13_FinalizedFrozen ==
    [][Finalized =>
          /\ inited' = inited
          /\ consumed' = consumed
          /\ status' = status
          /\ headers' = headers
          /\ body' = body]_vars

C13_Witness ==
    /\ Finalized
    /\ call # NoCall
    /\ IsStartMessage(call.msg)
    /\ call.msg.status = PyInt(100)
    /\ status = 200
    /\ call.result = "ASGIFlowError"

(***************************************************************************)
(* C14: the step that sets inited stores the status and headers of its     *)
(* start message; after it no step changes the stored status and headers,  *)
(* and a delivered response carries them.                                  *)
(***************************************************************************)
C14_StartFixed ==
    /\ [][/\ (~inited /\ inited') =>
               /\ IsStartMessage(call'.msg)
               /\ status' = call'.msg.status.int
               /\ headers' = adapt_headers(call'.msg)
          /\ inited => (inited' /\ status' = status /\ headers' = headers)]_vars
    /\ [](response # NoResponse =>
            (response.status = status /\ response.headers = headers))

C14_Witness ==
    /\ response # NoResponse
    /\ response.status = 200
    /\ response.headers = << <<(<<98>>), (<<119>>)>>, <<(<<97>>), (<<118>>)>> >>
    /\ call # NoCall
    /\ IsStartMessage(call.msg)
    /\ call.msg.status = PyInt(999)
    /\ call.result = "ASGIFlowError"

(***************************************************************************)
(* C15: consumed implies inited; while inited is false the status is 0,    *)
(* the headers are empty and the body is empty; the body changes only in a *)
(* step taken while inited is true and consumed is false, and only by      *)
(* growing at its end.                                                     *)
(***************************************************************************)
C15_StateInvariants ==
    /\ [](consumed => inited)
    /\ [](~inited => (status = 0 /\ headers = << >> /\ body = << >>))
    /\ [][body' # body =>
            /\ inited /\ ~consumed
            /\ Len(body') > Len(body)
            /\ SubSeq(body', 1, Len(body)) = body]_vars

C15_Witness ==
    /\ consumed
    /\ inited
    /\ status = 999
    /\ body = <<2, 1>>

(***************************************************************************)
(* C16: a response is sent into the channel only in a step that processes  *)
(* a body message with more_body false, accepted while inited; while the   *)
(* Sender is Fresh or Initialized no response has been sent; and as long   *)
(* as no finalizing body was submitted the channel stays as it was built   *)
(* and every body message submitted while Initialized returns Ok.          *)
(***************************************************************************)
C16_ResolvedOnlyOnFinal ==
    /\ [][/\ (sends' # sends \/ response' # response) =>
               /\ Submitted
               /\ IsBodyMessage(call'.msg)
               /\ IsFinalizing(call'.msg) \/ ~IsBool(call'.msg.more_body)
               /\ call'.result = "Ok"
               /\ Initialized
               /\ consumed'
          /\ (Submitted /\ Initialized /\ IsBodyMessage(call'.msg)
                /\ call'.msg.more_body = PyBool(TRUE)) =>
               /\ call'.result = "Ok"
               /\ UNCHANGED <<tx, chanState, response, sends>>]_vars
    /\ [](~consumed => (sends = 0 /\ response = NoResponse))
    /\ []((\A i \in 1..Len(chunks) : chunks[i].more) =>
            /\ chanState \in {"pending", "none"}
            /\ tx = (chanState = "pending")
            /\ sends = 0)

C16_Witness ==
    /\ Initialized
    /\ Len(chunks) >= 2
    /\ \A i \in 1..Len(chunks) : chunks[i].more
    /\ body = <<1, 2>>
    /\ chanState = "pending"
    /\ call # NoCall
    /\ call.result = "Ok"

(***************************************************************************)
(* C17: when all header pairs of a start message are well formed and two   *)
(* or more of them have the same name, all of them are stored, one entry   *)
(* per pair, in submission order.                                          *)
(* Does not hold: HeaderMap::insert replaces the entry of the same name.   *)
(***************************************************************************)
C17_DuplicateHeadersKept ==
    [][(Submitted /\ IsStartMessage(call'.msg) /\ Fresh
          /\ HasValidStatus(call'.msg) /\ call'.msg.status.int = 200
          /\ IsList(call'.msg.headers)
          /\ Len(WellFormedPairs(call'.msg.headers.list))
               = Len(call'.msg.headers.list)
          /\ \E i, j \in 1..Len(call'.msg.headers.list) :
               /\ i < j
               /\ WellFormedPairs(call'.msg.headers.list)[i][1]
                    = WellFormedPairs(call'.msg.headers.list)[j][1]) =>
          /\ call'.result = "Ok"
          /\ Len(headers') = Len(call'.msg.headers.list)
          /\ headers' = WellFormedPairs(call'.msg.headers.list)]_vars

(***************************************************************************)
(* C20: for a Sender built with a channel, the producer has been given up  *)
(* (tx is None) if and only if the Sender is Finalized.                    *)
(* Does not hold: the panic of C4 happens after tx.take() and before       *)
(* consumed is set.                                                        *)
(***************************************************************************)
C20_TxEmptyIffFinalized ==
    chanState # "none" => (tx = FALSE <=> consumed)

(***************************************************************************)
(* C18: under the fairness of SpecLive every receive call that waits for   *)
(* the mutex or drains the body eventually ends (with its bytes, or by the *)
(* panic of C11) with the mutex released, for any number of pending calls  *)
(* and any interleaving with submit calls.                                 *)
(***************************************************************************)
C18_ReceiveCompletes ==
    \A r \in Readers :
        (pc[r] \in {"waiting", "draining"})
            ~> (pc[r] \in {"idle", "panicked"} /\ lockHolder # r)

C18_Witness ==
    /\ \A r \in Readers : pc[r] \in {"waiting", "draining"}
    /\ lockHolder # 0
    /\ ncalls >= 1
    /\ Len(returned) >= 1

(***************************************************************************)
(* C19: with several receive calls pending, at most one call holds the     *)
(* request and drains the stream at a time, and (the transport not         *)
(* failing) every byte of the body is in exactly one place: in the results *)
(* returned so far, taken in the order the lock was held, in the buffer of *)
(* the draining call, or still in the stream; so the results concatenated  *)
(* equal the body once the stream is drained.                              *)
(***************************************************************************)
C19_ExclusiveDrain ==
    /\ Cardinality({r \in Readers : pc[r] = "draining"}) <= 1
    /\ \A r \in Readers : pc[r] = "draining" <=> lockHolder = r
    /\ failure = "none" =>
         Flatten([i \in 1..Len(returned) |-> returned[i].bytes])
           \o (IF lockHolder # 0 THEN buf[lockHolder] ELSE << >>)
           \o Flatten(stream) = reqBody

C19_Witness ==
    /\ failure = "none"
    /\ lockHolder = 1
    /\ pc[2] = "waiting"
    /\ Len(returned) >= 1
    /\ returned[1].reader = 2
    /\ returned[1].bytes = reqBody
    /\ reqBody = <<1, 3, 4>>

====
